---------------------------- MODULE Spec2Model ----------------------------
(***************************************************************************)
(* A model of python-freshdesk (src/freshdesk/api.py, models.py): the      *)
(* transport (API._handle_response, _get/_put/_post/_delete), the resource *)
(* operations built on it, and the models hydrated from JSON responses.    *)
(*                                                                         *)
(* Python values are tagged records, JSON documents are tagged records of  *)
(* their own, and json.loads / json.dumps convert between the two.  An     *)
(* operation either returns a value or raises an exception; the model      *)
(* keeps that outcome, the HTTP requests sent and the responses received.  *)
(***************************************************************************)
EXTENDS Integers, Sequences, FiniteSets, TLC

VARIABLES
    pc,        \* "idle", "paging", "fetching" (inside list_tickets), "done"
    op,        \* the operation called and the arguments the caller passed
    reqs,      \* the HTTP requests sent so far, in order
    resps,     \* the HTTP responses received so far, in order
    jsonCalls, \* for each response, whether response.json() was called on it
    outcome,   \* how the operation ended: a returned value or a raised exception
    page,      \* list_tickets: the local `page`
    tickets,   \* list_tickets: the local `tickets`
    fetched,   \* list_tickets: the Ticket objects built so far by the final comprehension
    subject,   \* the model instance a method (update) or an accessor read acts on
    view       \* the outcome of the last accessor read on `subject`

vars == <<pc, op, reqs, resps, jsonCalls, outcome, page, tickets, fetched, subject, view>>

----------------------------------------------------------------------------
(* Python values *)

PyNone == [t |-> "none"]
PyBool(b) == [t |-> "bool", b |-> b]
PyInt(i) == [t |-> "int", i |-> i]
PyStr(s) == [t |-> "str", s |-> s]
PyList(l) == [t |-> "list", l |-> l]
PyDict(d) == [t |-> "dict", d |-> d]
\* an instance of a model class: self._api and the instance attributes
PyObj(cls, api, attrs) == [t |-> "obj", cls |-> cls, api |-> api, attrs |-> attrs]
\* the API object the resource APIs hold
ApiRef == [t |-> "api"]
\* a str holding the JSON text of a document
PyJsonText(doc) == [t |-> "jsontext", doc |-> doc]

EmptyMap == [k \in {} |-> PyNone]

\* an operation's outcome
Return(v) == [kind |-> "return", val |-> v]
RaiseMsg(e, m) == [kind |-> "raise", exc |-> e, msg |-> m]
Raise(e) == RaiseMsg(e, "")
NoOutcome == [kind |-> "none"]

\* F(v) with v evaluated once
Let(v, F(_)) == CHOOSE r \in {F(x) : x \in {v}} : TRUE

\* an exception o raised propagates, a value it returned goes on to F
Try(o, F(_)) == Let(o, LAMBDA r : IF r.kind = "raise" THEN r ELSE F(r.val))

\* Python truth value testing
Truthy(v) ==
    CASE v.t = "none" -> FALSE
      [] v.t = "bool" -> v.b
      [] v.t = "int"  -> v.i # 0
      [] v.t = "str"  -> v.s # ""
      [] v.t = "list" -> Len(v.l) # 0
      [] v.t = "dict" -> DOMAIN v.d # {}
      [] OTHER        -> TRUE

\* str.format of one value, as '{}'.format(v) renders it
PyFormat(v) ==
    CASE v.t = "int"  -> ToString(v.i)
      [] v.t = "str"  -> v.s
      [] v.t = "bool" -> IF v.b THEN "True" ELSE "False"
      [] v.t = "none" -> "None"
      [] OTHER        -> "<object>"

----------------------------------------------------------------------------
(* JSON documents and the json module *)

JNull == [j |-> "null"]
JBool(b) == [j |-> "boolean", b |-> b]
JNum(n) == [j |-> "number", n |-> n]
JStr(s) == [j |-> "string", s |-> s]
JArr(a) == [j |-> "array", a |-> a]
JObj(o) == [j |-> "object", o |-> o]
\* a body that is not JSON text (an HTML error page, an empty body)
NotJSON == [j |-> "notjson"]

RECURSIVE json_loads(_)
json_loads(doc) ==
    CASE doc.j = "null"    -> PyNone
      [] doc.j = "boolean" -> PyBool(doc.b)
      [] doc.j = "number"  -> PyInt(doc.n)
      [] doc.j = "string"  -> PyStr(doc.s)
      [] doc.j = "array"   -> PyList([i \in 1..Len(doc.a) |-> json_loads(doc.a[i])])
      [] doc.j = "object"  -> PyDict([k \in DOMAIN doc.o |-> json_loads(doc.o[k])])

RECURSIVE json_dumps(_)
json_dumps(v) ==
    CASE v.t = "none" -> JNull
      [] v.t = "bool" -> JBool(v.b)
      [] v.t = "int"  -> JNum(v.i)
      [] v.t = "str"  -> JStr(v.s)
      [] v.t = "list" -> JArr([i \in 1..Len(v.l) |-> json_dumps(v.l[i])])
      [] v.t = "dict" -> JObj([k \in DOMAIN v.d |-> json_dumps(v.d[k])])


----------------------------------------------------------------------------
(* models.py: the model classes *)

Classes == {"Post", "Topic", "Ticket", "Comment", "Contact",
            "SolutionCategory", "SolutionFolder", "Solution"}

\* the properties (getter only, no setter) each class defines
Properties(cls) ==
    CASE cls = "Topic"            -> {"sticky", "locked", "stamp_type", "posts"}
      [] cls = "Ticket"           -> {"comments", "priority", "status", "source"}
      [] cls = "SolutionCategory" -> {"folders"}
      [] cls = "SolutionFolder"   -> {"visibility", "articles"}
      [] cls = "Solution"         -> {"tags", "article_type", "status"}
      [] OTHER                    -> {}

\* the methods each class defines or inherits from FreshdeskModel
Methods(cls) ==
    {"__init__", "_to_timestamp", "_keys", "__str__", "__repr__"}
        \cup (IF cls \in {"Topic", "Post"} THEN {"update"} ELSE {})

\* hasattr(cls, k) for a class object
hasattr(cls, k) == k \in Properties(cls) \cup Methods(cls)

\* FreshdeskModel.__init__, the renaming of one key: four tests in sequence,
\* each on the name the previous one left
RenameKey(k) ==
    LET k1 == IF hasattr("Topic", k) THEN "_" \o k ELSE k
        k2 == IF hasattr("Ticket", k1) THEN "_" \o k1 ELSE k1
        k3 == IF hasattr("SolutionFolder", k2) THEN "_" \o k2 ELSE k2
        k4 == IF hasattr("Solution", k3) THEN "_" \o k3 ELSE k3
    IN k4

\* dateutil.parser.parser(info): the class's constructor, which keeps
\* `info or parserinfo()` and parses nothing
datetime_parser(info) ==
    [t |-> "parser", info |-> IF Truthy(info) THEN info ELSE [t |-> "parserinfo"]]

_to_timestamp(timestamp_str) == datetime_parser(timestamp_str)

\* FreshdeskModel.__init__(self, api, **kwargs) for a class cls: the outcome is
\* the hydrated instance, or the AttributeError of a setattr on a property
\* without setter or of reading a created_at / updated_at that was never set.
\* (Two keys renamed to one attribute would make the result depend on the
\* dict's iteration order; the key sets drawn below have no such pair.)
FreshdeskModel__init__(cls, api, kwargs) ==
    Let(kwargs, LAMBDA kw :
      Let({RenameKey(k) : k \in DOMAIN kw}, LAMBDA names :
        IF names \cap Properties(cls) # {} THEN Raise("AttributeError")
        ELSE IF "created_at" \notin names THEN Raise("AttributeError")
        ELSE IF "updated_at" \notin names THEN Raise("AttributeError")
        ELSE Return(PyObj(cls, api,
                 [a \in names |->
                     Let(kw[CHOOSE k \in DOMAIN kw : RenameKey(k) = a], LAMBDA v :
                         IF a \in {"created_at", "updated_at"}
                         THEN _to_timestamp(v) ELSE v)]))))

\* Cls(api, **v) or Cls(api=api, extra=..., **v): `**v` needs a mapping, and a
\* key given twice is a TypeError
Construct(cls, api, extra, v) ==
    IF v.t # "dict" THEN Raise("TypeError")
    ELSE IF (DOMAIN v.d) \cap (DOMAIN extra \cup {"api"}) # {} THEN Raise("TypeError")
    ELSE FreshdeskModel__init__(cls, api, extra @@ v.d)

\* obj[key]
Subscript(v, key) ==
    CASE v.t = "dict" -> IF key \in DOMAIN v.d THEN Return(v.d[key]) ELSE Raise("KeyError")
      [] OTHER        -> Raise("TypeError")

\* iter(v) as a list of the items
Iterate(v) ==
    CASE v.t = "list" -> Return(v.l)
      [] v.t = "str"  -> Return([i \in 1..Len(v.s) |-> PyStr(SubSeq(v.s, i, i))])
      [] v.t = "dict" -> LET n == Cardinality(DOMAIN v.d)
                             order == CHOOSE f \in [1..n -> DOMAIN v.d] :
                                         \A i, j \in 1..n : i # j => f[i] # f[j]
                         IN Return([i \in 1..n |-> PyStr(order[i])])
      [] OTHER        -> Raise("TypeError")

\* a list comprehension [f(x) for x in xs] whose element outcomes are outs: the
\* first exception propagates, otherwise the list of the values
Comprehension(outs) ==
    Let(outs, LAMBDA o :
        IF \E i \in 1..Len(o) : o[i].kind = "raise"
        THEN o[CHOOSE i \in 1..Len(o) :
                 /\ o[i].kind = "raise"
                 /\ \A j \in 1..(i - 1) : o[j].kind = "return"]
        ELSE Return(PyList([i \in 1..Len(o) |-> o[i].val])))

\* table[key] for a dict literal keyed by ints; True and False hash as 1 and 0
TableLookup(table, key) ==
    CASE key.t = "int"  -> IF key.i \in DOMAIN table
                           THEN Return(PyStr(table[key.i])) ELSE Raise("KeyError")
      [] key.t = "bool" -> IF (IF key.b THEN 1 ELSE 0) \in DOMAIN table
                           THEN Return(PyStr(table[IF key.b THEN 1 ELSE 0]))
                           ELSE Raise("KeyError")
      [] key.t \in {"list", "dict"} -> Raise("TypeError")
      [] OTHER          -> Raise("KeyError")

\* self.<name> for a plain instance attribute
InstanceAttr(self, name) ==
    IF name \in DOMAIN self.attrs THEN Return(self.attrs[name]) ELSE Raise("AttributeError")

Ticket_p == (1 :> "low") @@ (2 :> "medium") @@ (3 :> "high") @@ (4 :> "urgent")
Ticket_s == (2 :> "open") @@ (3 :> "pending") @@ (4 :> "resolved") @@ (5 :> "closed")
Ticket_src == (1 :> "email") @@ (2 :> "portal") @@ (3 :> "phone") @@ (4 :> "forum")
                @@ (5 :> "twitter") @@ (6 :> "facebook") @@ (7 :> "chat")
Topic_s == (1 :> "planned") @@ (2 :> "implemented") @@ (3 :> "not taken")
             @@ (4 :> "in progress") @@ (5 :> "deferred") @@ (6 :> "answered")
             @@ (7 :> "unanswered") @@ (8 :> "solved") @@ (9 :> "unsolved")
SolutionFolder_v == (1 :> "All") @@ (2 :> "Logged in Users") @@ (3 :> "Agents Only")
                      @@ (4 :> "Company Specific Users")
Solution_t == (1 :> "permanent") @@ (2 :> "workaround")
Solution_s == (1 :> "draft") @@ (2 :> "published")

\* a property that is `table[self.<attr>]`
TableProperty(self, attr, table) ==
    Try(InstanceAttr(self, attr), LAMBDA key : TableLookup(table, key))

Ticket_priority(self) == TableProperty(self, "_priority", Ticket_p)

\* Ticket.status without its `except KeyError`: the bare table lookup
Ticket_status_strict(self) == TableProperty(self, "_status", Ticket_s)

Ticket_status(self) ==
    Try(InstanceAttr(self, "_status"), LAMBDA key :
        Let(TableLookup(Ticket_s, key), LAMBDA r :
            IF r.kind = "raise" /\ r.exc = "KeyError"
            THEN Return(PyStr("status_" \o PyFormat(key)))
            ELSE r))

Ticket_source(self) == TableProperty(self, "_source", Ticket_src)

\* a property that is [Child(api=self._api, <back>=self, **p) for p in self.<attr>]
ChildrenProperty(self, attr, cls, extra) ==
    Try(InstanceAttr(self, attr), LAMBDA raw :
        Try(Iterate(raw), LAMBDA items :
            Comprehension([i \in 1..Len(items) |->
                              Construct(cls, self.api, extra, items[i])])))

Topic_posts(self) == ChildrenProperty(self, "_posts", "Post", "topic" :> self)

Topic_sticky(self) ==
    Try(InstanceAttr(self, "_sticky"), LAMBDA raw : Return(PyBool(Truthy(raw))))

Topic_locked(self) ==
    Try(InstanceAttr(self, "_locked"), LAMBDA raw : Return(PyBool(Truthy(raw))))

Topic_stamp_type(self) == TableProperty(self, "_stamp_type", Topic_s)

Ticket_comments(self) ==
    Try(InstanceAttr(self, "notes"), LAMBDA raw :
        Try(Iterate(raw), LAMBDA items :
            Comprehension([i \in 1..Len(items) |->
                Try(Subscript(items[i], "note"), LAMBDA note :
                    Construct("Comment", self.api, "ticket" :> self, note))])))

SolutionCategory_folders(self) ==
    ChildrenProperty(self, "_folders", "SolutionFolder", EmptyMap)

SolutionFolder_articles(self) ==
    ChildrenProperty(self, "_articles", "Solution", EmptyMap)

SolutionFolder_visibility(self) == TableProperty(self, "_visibility", SolutionFolder_v)

Solution_tags(self) ==
    Try(InstanceAttr(self, "_tags"), LAMBDA raw :
        Try(Iterate(raw), LAMBDA items :
            Comprehension([i \in 1..Len(items) |-> Subscript(items[i], "name")])))

Solution_article_type(self) == TableProperty(self, "art_type", Solution_t)

Solution_status(self) == TableProperty(self, "_status", Solution_s)

\* getattr(self, name): a property of the class runs its getter, anything
\* else is looked up among the instance attributes
getattr(self, name) ==
    IF name \notin Properties(self.cls) THEN InstanceAttr(self, name)
    ELSE CASE self.cls = "Topic" /\ name = "sticky"     -> Topic_sticky(self)
           [] self.cls = "Topic" /\ name = "locked"     -> Topic_locked(self)
           [] self.cls = "Topic" /\ name = "stamp_type" -> Topic_stamp_type(self)
           [] self.cls = "Topic" /\ name = "posts"      -> Topic_posts(self)
           [] self.cls = "Ticket" /\ name = "comments"  -> Ticket_comments(self)
           [] self.cls = "Ticket" /\ name = "priority"  -> Ticket_priority(self)
           [] self.cls = "Ticket" /\ name = "status"    -> Ticket_status(self)
           [] self.cls = "Ticket" /\ name = "source"    -> Ticket_source(self)
           [] self.cls = "SolutionCategory" /\ name = "folders" -> SolutionCategory_folders(self)
           [] self.cls = "SolutionFolder" /\ name = "visibility" -> SolutionFolder_visibility(self)
           [] self.cls = "SolutionFolder" /\ name = "articles" -> SolutionFolder_articles(self)
           [] self.cls = "Solution" /\ name = "tags"    -> Solution_tags(self)
           [] self.cls = "Solution" /\ name = "article_type" -> Solution_article_type(self)
           [] self.cls = "Solution" /\ name = "status"  -> Solution_status(self)


----------------------------------------------------------------------------
(* api.py: the transport *)

Domain == "company.freshdesk.com"

RECURSIVE rstrip(_, _)
rstrip(s, c) ==
    IF Len(s) > 0 /\ SubSeq(s, Len(s), Len(s)) = c
    THEN rstrip(SubSeq(s, 1, Len(s) - 1), c) ELSE s

\* API.__init__: self._api_prefix
_api_prefix == "http://" \o rstrip(Domain, "/") \o "/"

RateLimitMsg == "403 Forbidden: API rate-limit has been reached"
LoginMsg == "403 Forbidden: API key is incorrect for this domain"

\* a is a substring of b
IsSubstring(a, b) ==
    \E i \in 1..(Len(b) - Len(a) + 1) : SubSeq(b, i, i + Len(a) - 1) = a

\* `key in v` for a str key
Contains(key, v) ==
    CASE v.t = "dict" -> Return(key \in DOMAIN v.d)
      [] v.t = "list" -> Return(\E i \in 1..Len(v.l) : v.l[i] = PyStr(key))
      [] v.t = "str"  -> Return(IsSubstring(key, v.s))
      [] OTHER        -> Raise("TypeError")

\* response.json()
response_json(response) ==
    IF response.body = NotJSON THEN Raise("ValueError")
    ELSE Return(json_loads(response.body))

\* the argument of the rate-limit raise: formatting the message reads
\* r.headers, and no name `r` is bound in _handle_response or in the module
RateLimitRaise == Raise("NameError")

\* the body of the try block of _handle_response
TryBlock(response) ==
    Try(response_json(response), LAMBDA j :
        Try(Contains("require_login", j), LAMBDA found :
            IF found THEN RaiseMsg("HTTPError", LoginMsg) ELSE Return(j)))

\* the bare `except:` of _handle_response: whatever the try block raised
ExceptClause(raised) == Return(PyStr("{}"))

\* API._handle_response: the outcome, and whether response.json() was called
_handle_response(response) ==
    IF ~response.ok THEN [out |-> RaiseMsg("HTTPError", "status"), parsed |-> FALSE]
    ELSE IF response.retry THEN [out |-> RateLimitRaise, parsed |-> FALSE]
    ELSE Let(TryBlock(response), LAMBDA t :
             [out |-> IF t.kind = "raise" THEN ExceptClause(t) ELSE t, parsed |-> TRUE])

\* one call of a transport primitive: the request sent, the response
\* received and what _handle_response made of it
Transport(method, url, data, response) ==
    Let(_handle_response(response), LAMBDA h :
        [reqs   |-> <<[method |-> method, prefix |-> _api_prefix, url |-> url, data |-> data]>>,
         resps  |-> <<response>>,
         parsed |-> <<h.parsed>>,
         out    |-> h.out])

\* an operation that ended before any request
NoTransport(out) == [reqs |-> <<>>, resps |-> <<>>, parsed |-> <<>>, out |-> out]

NoData == PyDict(EmptyMap)

_get(url, params, response) == Transport("GET", url, params, response)
_put(url, data, response) == Transport("PUT", url, data, response)
_post(url, data, response) == Transport("POST", url, data, response)
_delete(url, response) == Transport("DELETE", url, [t |-> "absent"], response)

\* API._create_post(post_type, **kwargs)
_create_post(post_type, kwargs) ==
    Let(kwargs, LAMBDA kw : PyJsonText(json_dumps(PyDict(post_type :> PyDict(kw)))))

\* pattern % v for a pattern with one %d: ints (and bools) only
PctD(v) ==
    CASE v.t = "int"  -> Return(ToString(v.i))
      [] v.t = "bool" -> Return(IF v.b THEN "1" ELSE "0")
      [] OTHER        -> Raise("TypeError")

\* F applied to what a transport call returned, an exception passing through
Then(t, F(_)) ==
    Let(t, LAMBDA r : IF r.out.kind = "raise" THEN r ELSE [r EXCEPT !.out = F(r.out.val)])

\* Cls(api, **response[key]): unwrap the top-level key and construct the model
Unwrap(cls, t, key) ==
    Then(t, LAMBDA j :
        Try(Subscript(j, key), LAMBDA fields : Construct(cls, ApiRef, EmptyMap, fields)))

----------------------------------------------------------------------------
(* api.py: TicketAPI *)

get_ticket(ticket_id, response) ==
    Let(PctD(ticket_id), LAMBDA id :
        IF id.kind = "raise" THEN NoTransport(id)
        ELSE Unwrap("Ticket",
                    _get(PyStr("helpdesk/tickets/" \o id.val \o ".json"), NoData, response),
                    "helpdesk_ticket"))


\* list_tickets: url + '&page=%d' % page
list_tickets_url(filter_name, pg) ==
    PyStr("helpdesk/tickets/filter/" \o PyFormat(filter_name) \o "?format=json"
            \o "&page=" \o ToString(pg))

\* len(x)
PyLen(v) ==
    CASE v.t = "list" -> Len(v.l)
      [] v.t = "str"  -> Len(v.s)
      [] v.t = "dict" -> Cardinality(DOMAIN v.d)

\* this_page put in front of tickets instead of behind
Extend_front(tickets_, this_page) == Iterate(this_page).val \o tickets_

\* tickets += this_page
Extend(tickets_, this_page) == tickets_ \o Iterate(this_page).val

\* filter_name and the remaining kwargs, as list_tickets splits them
FilterName(kwargs) ==
    IF "filter_name" \in DOMAIN kwargs THEN kwargs["filter_name"] ELSE PyStr("all_tickets")
FilterParams(kwargs) ==
    PyDict([k \in DOMAIN kwargs \ {"filter_name"} |-> kwargs[k]])

----------------------------------------------------------------------------
(* api.py: SolutionAPI, TopicAPI, ContactAPI *)

create_category(name, description, response) ==
    _post(PyStr("solution/categories.json"),
          _create_post("solution_category", ("name" :> name) @@ ("description" :> description)),
          response)

get_category(category_id, response) ==
    Let(PctD(category_id), LAMBDA id :
        IF id.kind = "raise" THEN NoTransport(id)
        ELSE Unwrap("SolutionCategory",
                    _get(PyStr("solution/categories/" \o id.val \o ".json"), NoData, response),
                    "category"))

\* self.get_solution_category is looked up before its argument is evaluated,
\* and SolutionAPI has no such attribute
list_categories == NoTransport(Raise("AttributeError"))

create_folder(category_id, name, visibility, description, customer_folder_attributes, response) ==
    Let(PctD(category_id), LAMBDA id :
        IF id.kind = "raise" THEN NoTransport(id)
        ELSE Unwrap("SolutionFolder",
                    _post(PyStr("solution/categories/" \o id.val \o "/folders.json"),
                          _create_post("solution_folder",
                              ("category_id" :> category_id) @@ ("name" :> name)
                              @@ ("visibility" :> visibility) @@ ("description" :> description)
                              @@ ("customer_folder_attributes" :> customer_folder_attributes)),
                          response),
                    "folder"))

get_article(category_id, folder_id, solution_id, response) ==
    Let(Comprehension(<<PctD(category_id), PctD(folder_id), PctD(solution_id)>>), LAMBDA ids :
        IF ids.kind = "raise" THEN NoTransport(ids)
        ELSE Unwrap("Solution",
                    _get(PyStr("solution/categories/" \o ids.val.l[1] \o "/folders/"
                               \o ids.val.l[2] \o "/articles/" \o ids.val.l[3] \o ".json"),
                         NoData, response),
                    "article"))

\* the pattern is sent as it is: no ids are formatted into it
delete_article(category_id, folder_id, solution_id, response) ==
    _delete(PyStr("solution/categories/%d/folders/%d/articles/%d.json"), response)

create_article(category_id, folder_id, title, status, art_type, description, tags, response) ==
    Let(Comprehension(<<PctD(category_id), PctD(folder_id)>>), LAMBDA ids :
        IF ids.kind = "raise" THEN NoTransport(ids)
        ELSE Unwrap("Solution",
                    _post(PyStr("/solution/categories/" \o ids.val.l[1] \o "/folders/"
                                \o ids.val.l[2] \o "/articles.json"),
                          _create_post("solution_article",
                              ("folder_id" :> folder_id) @@ ("title" :> title)
                              @@ ("status" :> status) @@ ("art_type" :> art_type)
                              @@ ("description" :> description)),
                          response),
                    "article"))

get_topic(topic_id, response) ==
    Let(PctD(topic_id), LAMBDA id :
        IF id.kind = "raise" THEN NoTransport(id)
        ELSE Unwrap("Topic",
                    _get(PyStr("discussions/topics/" \o id.val \o ".json"), NoData, response),
                    "topic"))

\* self._api.delete: API has _delete and no delete
delete_topic(topic_id) ==
    Let(PctD(topic_id), LAMBDA id :
        NoTransport(IF id.kind = "raise" THEN id ELSE Raise("AttributeError")))

create_topic(forum_id, title, body_html, sticky, locked, response) ==
    Then(_post(PyStr("discussions/topics.json"),
               _create_post("topic",
                   ("forum_id" :> forum_id) @@ ("title" :> title)
                   @@ ("locked" :> locked) @@ ("body_html" :> body_html)),
               response),
         LAMBDA j : Subscript(j, "topic"))

get_contact(contact_id, response) ==
    Unwrap("Contact",
           _get(PyStr("contacts/" \o PyFormat(contact_id) \o ".json"), NoData, response),
           "user")

\* the post body is passed as _post's url, data keeps its default, and the
\* unwrapped value is passed as Contact's api with no keyword arguments
create_contact(name, email, response) ==
    Then(_post(_create_post("user", ("name" :> name) @@ ("email" :> email)), NoData, response),
         LAMBDA j :
            Try(Subscript(j, "user"), LAMBDA user :
                FreshdeskModel__init__("Contact", user, EmptyMap)))

----------------------------------------------------------------------------
(* models.py: Topic.update, Post.update *)

\* `new if new is not None else <current>`
PyOr_unless_none(new, current) == IF new # PyNone THEN Return(new) ELSE current

\* `new or <current>`: the current value is read only when new is falsy
PyOr(new, current) == IF Truthy(new) THEN Return(new) ELSE current

\* self.posts[0].body_html
FirstPostBody(self) ==
    Try(Topic_posts(self), LAMBDA posts :
        IF Len(posts.l) = 0 THEN Raise("IndexError")
        ELSE InstanceAttr(posts.l[1], "body_html"))

\* 'discussions/topics/%d.json' % self.id
Topic_url(self) ==
    Try(InstanceAttr(self, "id"), LAMBDA id :
        Try(PctD(id), LAMBDA d : Return(PyStr("discussions/topics/" \o d \o ".json"))))

\* the keyword arguments Topic.update gives _create_post, evaluated left to right
Topic_update_kwargs(self, title, body_html, sticky, locked) ==
    Try(PyOr(title, InstanceAttr(self, "title")), LAMBDA a :
    Try(PyOr(body_html, FirstPostBody(self)), LAMBDA b :
    Try(PyOr(sticky, Topic_sticky(self)), LAMBDA c :
    Try(PyOr(locked, Topic_locked(self)), LAMBDA d :
        Return(("title" :> a) @@ ("body_html" :> b) @@ ("sticky" :> c) @@ ("locked" :> d))))))

Topic_update(self, title, body_html, sticky, locked, response) ==
    Let(Topic_url(self), LAMBDA url :
        IF url.kind = "raise" THEN NoTransport(url)
        ELSE Let(Topic_update_kwargs(self, title, body_html, sticky, locked), LAMBDA kw :
                 IF kw.kind = "raise" THEN NoTransport(kw)
                 ELSE _put(url.val, _create_post("topic", kw.val), response)))

\* 'discussions/topics/%d/posts/%d.json' % (self.topic_id, self.id)
Post_url(self) ==
    Try(InstanceAttr(self, "topic_id"), LAMBDA tid :
    Try(InstanceAttr(self, "id"), LAMBDA sid :
    Try(PctD(tid), LAMBDA t :
    Try(PctD(sid), LAMBDA s :
        Return(PyStr("discussions/topics/" \o t \o "/posts/" \o s \o ".json"))))))

Post_update(self, body_html, response) ==
    Let(Post_url(self), LAMBDA url :
        IF url.kind = "raise" THEN NoTransport(url)
        ELSE Let(PyOr(body_html, InstanceAttr(self, "body_html")), LAMBDA kw :
                 IF kw.kind = "raise" THEN NoTransport(kw)
                 ELSE _put(url.val, _create_post("post", "body_html" :> kw.val), response)))

----------------------------------------------------------------------------
(* The server: the responses it may give, and the arguments callers pass *)

\* list_tickets asks for at most this many pages before the model stops it
MaxPages == 3
\* the longest page of a ticket listing
MaxPageLen == 2

TicketIds == {1, 2}
StatusCodes == {2, 3, 9}
PriorityCodes == {2, 3, 7}
SourceCodes == {1, 8}

GoodStamp == "2014-01-02T03:04:05+10:00"
BadStamp == "yesterday-ish"

EmptyDoc == [k \in {} |-> JNull]

\* created_at / updated_at as a response may carry them: both, either, neither
\* a timestamp
Stamps ==
    { ("created_at" :> JStr(c)) @@ ("updated_at" :> JStr(u)) :
          c \in {GoodStamp, BadStamp}, u \in {GoodStamp, BadStamp} }
    \cup { "created_at" :> JStr(GoodStamp), "updated_at" :> JStr(GoodStamp) }

GoodStamps == ("created_at" :> JStr(GoodStamp)) @@ ("updated_at" :> JStr(GoodStamp))

OkResponse(doc) == [ok |-> TRUE, retry |-> FALSE, body |-> doc]

\* a non-2xx status; a Retry-After header; a body that is no JSON; the
\* login marker; a JSON body that is neither object nor array
FailureResponses ==
    { [ok |-> FALSE, retry |-> FALSE, body |-> NotJSON],
      [ok |-> TRUE, retry |-> TRUE, body |-> JObj(EmptyDoc)],
      [ok |-> TRUE, retry |-> TRUE, body |-> NotJSON],
      OkResponse(NotJSON),
      OkResponse(JObj("require_login" :> JBool(TRUE))),
      OkResponse(JNum(5)),
      OkResponse(JObj(EmptyDoc)) }

Wrapped(key, fields) == OkResponse(JObj(key :> JObj(fields)))

TicketFields(id) ==
    { ("display_id" :> JNum(id)) @@ ("subject" :> JStr("help")) @@ ("status" :> JNum(s))
        @@ ("priority" :> JNum(p)) @@ ("source" :> JNum(src)) @@ st :
          s \in StatusCodes, p \in PriorityCodes, src \in SourceCodes, st \in Stamps }

TicketResponses(id) ==
    FailureResponses \cup { Wrapped("helpdesk_ticket", f) : f \in TicketFields(id) }

\* what the re-fetch inside list_tickets may be answered with
RefetchResponses(id) ==
    { [ok |-> FALSE, retry |-> FALSE, body |-> NotJSON],
      OkResponse(NotJSON),
      Wrapped("helpdesk_ticket",
              ("display_id" :> JNum(id)) @@ ("status" :> JNum(id + 1))
                @@ ("priority" :> JNum(id)) @@ ("source" :> JNum(1)) @@ GoodStamps),
      Wrapped("helpdesk_ticket", ("display_id" :> JNum(id)) @@ ("status" :> JNum(2))) }

\* the sequences over S of length at most n
RECURSIVE SeqsUpTo(_, _)
SeqsUpTo(S, n) ==
    IF n = 0 THEN {<<>>}
    ELSE LET shorter == SeqsUpTo(S, n - 1)
         IN shorter \cup { Append(q, x) : q \in shorter, x \in S }

PageEntry(id) == JObj(("display_id" :> JNum(id)) @@ ("subject" :> JStr("help")))

PageResponses ==
    { OkResponse(JArr(q)) : q \in SeqsUpTo({PageEntry(id) : id \in TicketIds}, MaxPageLen) }
    \cup { [ok |-> FALSE, retry |-> FALSE, body |-> NotJSON],
           [ok |-> TRUE, retry |-> TRUE, body |-> JArr(<<>>)],
           OkResponse(NotJSON),
           OkResponse(JObj("require_login" :> JBool(TRUE))),
           OkResponse(JObj("error" :> JStr("no such view"))) }

FirstPost ==
    JObj(("id" :> JNum(31)) @@ ("topic_id" :> JNum(7)) @@ ("body_html" :> JStr("<p>first</p>"))
           @@ GoodStamps)

PostDocs ==
    { FirstPost,
      JObj(("id" :> JNum(32)) @@ ("topic_id" :> JNum(7)) @@ ("body_html" :> JStr(""))
             @@ GoodStamps),
      JObj(("id" :> JNum(33)) @@ ("body_html" :> JStr("<p>undated</p>"))) }

TopicFields ==
    { ("id" :> JNum(7)) @@ ("title" :> JStr(t)) @@ ("sticky" :> st) @@ ("locked" :> lk)
        @@ ("stamp_type" :> JNum(6)) @@ ps @@ GoodStamps :
          t \in {"old title"}, st \in {JBool(TRUE), JBool(FALSE), JNum(1)},
          lk \in {JBool(TRUE), JBool(FALSE)},
          ps \in {EmptyDoc} \cup { "posts" :> JArr(q) : q \in SeqsUpTo(PostDocs, 1) }
                   \cup { "posts" :> JArr(<<p, FirstPost>>) : p \in PostDocs } }

TopicResponses == FailureResponses \cup { Wrapped("topic", f) : f \in TopicFields }

TagDocs == { JObj("name" :> JStr("howto")), JObj("name" :> JStr("billing")) }

ArticleFields ==
    { ("id" :> JNum(5)) @@ ("title" :> JStr("reset")) @@ ("status" :> JNum(2))
        @@ ("art_type" :> JNum(1)) @@ tg @@ st :
          tg \in {EmptyDoc} \cup { "tags" :> JArr(q) : q \in SeqsUpTo(TagDocs, 2) },
          st \in {GoodStamps, "updated_at" :> JStr(GoodStamp)} }

FolderFields ==
    { ("id" :> JNum(4)) @@ ("name" :> JStr("faq")) @@ ("visibility" :> JNum(v)) @@ ar @@ st :
          v \in {1, 5},
          ar \in {EmptyDoc} \cup { "articles" :> JArr(q) :
                     q \in SeqsUpTo({JObj(f) : f \in {g \in ArticleFields : "tags" \notin DOMAIN g}}, 1) },
          st \in {GoodStamps, "created_at" :> JStr(BadStamp)} }

CategoryFields ==
    { ("id" :> JNum(3)) @@ ("name" :> JStr("general")) @@ fo @@ st :
          fo \in {EmptyDoc} \cup { "folders" :> JArr(q) :
                     q \in SeqsUpTo({JObj(f) : f \in {g \in FolderFields : "articles" \notin DOMAIN g}}, 1) },
          st \in {GoodStamps, "created_at" :> JStr(BadStamp)} }

ContactFields ==
    { ("id" :> JNum(9)) @@ ("name" :> JStr("ann")) @@ ("email" :> JStr("ann@example.com")) @@ st :
          st \in Stamps }

ArticleResponses == FailureResponses \cup { Wrapped("article", f) : f \in ArticleFields }
FolderResponses == FailureResponses \cup { Wrapped("folder", f) : f \in FolderFields }
CategoryResponses == FailureResponses \cup { Wrapped("category", f) : f \in CategoryFields }
ContactResponses == FailureResponses \cup { Wrapped("user", f) : f \in ContactFields }

\* new values an update may be called with
NewStrings == {PyStr(""), PyStr("new text")}
NewFlags == {PyNone, PyBool(FALSE), PyBool(TRUE), PyInt(0)}

\* the keyword arguments list_tickets may be called with
ListKwargs ==
    { EmptyMap, ("filter_name" :> PyStr("new_my_open")) @@ ("company_id" :> PyInt(12)) }


----------------------------------------------------------------------------
(* The state machine: one caller, one operation at a time *)

NoOp == [name |-> "none", args |-> EmptyMap, passed |-> {}]
NoView == [name |-> "none", out |-> NoOutcome]

\* the state after API.__init__: nothing called, nothing sent
Init ==
    /\ pc = "idle"
    /\ op = NoOp
    /\ reqs = <<>>
    /\ resps = <<>>
    /\ jsonCalls = <<>>
    /\ outcome = NoOutcome
    /\ page = 0
    /\ tickets = <<>>
    /\ fetched = <<>>
    /\ subject = PyNone
    /\ view = NoView

\* the transport part of a step: what was sent, received and parsed
Exchange(t) ==
    /\ reqs' = reqs \o t.reqs
    /\ resps' = resps \o t.resps
    /\ jsonCalls' = jsonCalls \o t.parsed

\* an operation called from idle ends with t
Finish(name, args, passed, t) ==
    \E r \in {t} :
        /\ pc' = "done"
        /\ op' = [name |-> name, args |-> args, passed |-> passed]
        /\ Exchange(r)
        /\ outcome' = r.out
        /\ subject' = IF r.out.kind = "return" /\ r.out.val.t = "obj" THEN r.out.val ELSE PyNone
        /\ view' = NoView
        /\ UNCHANGED <<page, tickets, fetched>>

GetTicket ==
    /\ pc = "idle"
    /\ \E id \in TicketIds : \E response \in TicketResponses(id) :
           Finish("get_ticket", "ticket_id" :> PyInt(id), {"ticket_id"},
                  get_ticket(PyInt(id), response))

\* list_tickets up to the loop
ListTicketsCall ==
    /\ pc = "idle"
    /\ \E kwargs \in ListKwargs :
          op' = [name |-> "list_tickets", args |-> kwargs, passed |-> DOMAIN kwargs]
    /\ pc' = "paging"
    /\ page' = 1
    /\ tickets' = <<>>
    /\ UNCHANGED <<reqs, resps, jsonCalls, outcome, fetched, subject, view>>

\* one iteration of the while loop of list_tickets
ListTicketsPage ==
    /\ pc = "paging"
    /\ page <= MaxPages
    /\ \E response \in PageResponses :
       \E t \in {_get(list_tickets_url(FilterName(op.args), page),
                      FilterParams(op.args), response)} :
          /\ Exchange(t)
          /\ IF t.out.kind = "raise"
             THEN /\ pc' = "done"
                  /\ outcome' = t.out
                  /\ UNCHANGED <<page, tickets>>
             ELSE IF PyLen(t.out.val) = 0
             THEN /\ pc' = IF Len(tickets) = 0 THEN "done" ELSE "fetching"
                  /\ outcome' = IF Len(tickets) = 0 THEN Return(PyList(<<>>)) ELSE outcome
                  /\ UNCHANGED <<page, tickets>>
             ELSE /\ pc' = "paging"
                  /\ tickets' = Extend(tickets, t.out.val)
                  /\ page' = page + 1
                  /\ UNCHANGED outcome
    /\ UNCHANGED <<op, fetched, subject, view>>

\* one element of the final comprehension of list_tickets whose
\* t['display_id'] raises
ListTicketsBadEntry ==
    /\ pc = "fetching"
    /\ \E d \in {Subscript(tickets[Len(fetched) + 1], "display_id")} :
          /\ d.kind = "raise"
          /\ outcome' = d
    /\ pc' = "done"
    /\ UNCHANGED <<op, reqs, resps, jsonCalls, page, tickets, fetched, subject, view>>

\* one element of the final comprehension of list_tickets: get_ticket on its
\* display_id
ListTicketsFetch ==
    /\ pc = "fetching"
    /\ \E d \in {Subscript(tickets[Len(fetched) + 1], "display_id")} :
          /\ d.kind = "return"
          /\ \E response \in RefetchResponses(d.val.i) :
             \E t \in {get_ticket(d.val, response)} :
                /\ Exchange(t)
                /\ IF t.out.kind = "raise"
                   THEN /\ pc' = "done"
                        /\ outcome' = t.out
                        /\ UNCHANGED fetched
                   ELSE /\ fetched' = Append(fetched, t.out.val)
                        /\ pc' = IF Len(fetched') = Len(tickets) THEN "done" ELSE "fetching"
                        /\ outcome' = IF Len(fetched') = Len(tickets)
                                      THEN Return(PyList(fetched')) ELSE outcome
    /\ UNCHANGED <<op, page, tickets, subject, view>>

GetTopic ==
    /\ pc = "idle"
    /\ \E response \in TopicResponses :
           Finish("get_topic", "topic_id" :> PyInt(7), {"topic_id"},
                  get_topic(PyInt(7), response))

DeleteTopic ==
    /\ pc = "idle"
    /\ Finish("delete_topic", "topic_id" :> PyInt(7), {"topic_id"}, delete_topic(PyInt(7)))

GetContact ==
    /\ pc = "idle"
    /\ \E response \in ContactResponses :
           Finish("get_contact", "contact_id" :> PyInt(9), {"contact_id"},
                  get_contact(PyInt(9), response))

GetCategory ==
    /\ pc = "idle"
    /\ \E response \in CategoryResponses :
           Finish("get_category", "category_id" :> PyInt(3), {"category_id"},
                  get_category(PyInt(3), response))

ListCategories ==
    /\ pc = "idle"
    /\ Finish("list_categories", EmptyMap, {}, list_categories)

GetArticle ==
    /\ pc = "idle"
    /\ \E response \in ArticleResponses :
           Finish("get_article",
                  ("category_id" :> PyInt(3)) @@ ("folder_id" :> PyInt(4)) @@ ("solution_id" :> PyInt(5)),
                  {"category_id", "folder_id", "solution_id"},
                  get_article(PyInt(3), PyInt(4), PyInt(5), response))

DeleteArticle ==
    /\ pc = "idle"
    /\ \E response \in FailureResponses :
           Finish("delete_article",
                  ("category_id" :> PyInt(3)) @@ ("folder_id" :> PyInt(4)) @@ ("solution_id" :> PyInt(5)),
                  {"category_id", "folder_id", "solution_id"},
                  delete_article(PyInt(3), PyInt(4), PyInt(5), response))

\* a call's arguments: what the caller passed over the defaults of the
\* parameters it left out
Bind(defaults, passed) == passed @@ defaults

CreateCategory ==
    /\ pc = "idle"
    /\ \E name \in {PyStr("general"), PyStr("")} : \E response \in CategoryResponses :
           LET a == ("name" :> name) @@ ("description" :> PyStr("all the rest"))
           IN Finish("create_category", a, DOMAIN a,
                     create_category(a.name, a.description, response))

CreateFolder ==
    /\ pc = "idle"
    /\ \E opt \in {EmptyMap, "customer_folder_attributes" :> PyList(<<PyInt(12)>>)} :
       \E response \in FolderResponses :
           LET given == ("category_id" :> PyInt(3)) @@ ("name" :> PyStr("faq"))
                          @@ ("visibility" :> PyInt(1)) @@ ("description" :> PyStr("asked often"))
                          @@ opt
               a == Bind("customer_folder_attributes" :> PyList(<<>>), given)
           IN Finish("create_folder", a, DOMAIN given,
                     create_folder(a.category_id, a.name, a.visibility, a.description,
                                   a.customer_folder_attributes, response))

CreateArticle ==
    /\ pc = "idle"
    /\ \E opt \in {EmptyMap, "tags" :> PyList(<<PyStr("howto")>>)} :
       \E response \in ArticleResponses :
           LET given == ("category_id" :> PyInt(3)) @@ ("folder_id" :> PyInt(4))
                          @@ ("title" :> PyStr("reset")) @@ ("status" :> PyInt(2))
                          @@ ("art_type" :> PyInt(1)) @@ ("description" :> PyStr("<p>how</p>"))
                          @@ opt
               a == Bind("tags" :> PyList(<<>>), given)
           IN Finish("create_article", a, DOMAIN given,
                     create_article(a.category_id, a.folder_id, a.title, a.status, a.art_type,
                                    a.description, a.tags, response))

CreateTopic ==
    /\ pc = "idle"
    /\ \E opt \in { EmptyMap, "sticky" :> PyBool(TRUE), "locked" :> PyBool(TRUE),
                    ("sticky" :> PyBool(TRUE)) @@ ("locked" :> PyBool(FALSE)) } :
       \E response \in TopicResponses :
           LET given == ("forum_id" :> PyInt(2)) @@ ("title" :> PyStr("hello"))
                          @@ ("body_html" :> PyStr("<p>hi</p>")) @@ opt
               a == Bind(("sticky" :> PyBool(FALSE)) @@ ("locked" :> PyBool(FALSE)), given)
           IN Finish("create_topic", a, DOMAIN given,
                     create_topic(a.forum_id, a.title, a.body_html, a.sticky, a.locked, response))

CreateContact ==
    /\ pc = "idle"
    /\ \E response \in ContactResponses :
           LET a == ("name" :> PyStr("ann")) @@ ("email" :> PyStr("ann@example.com"))
           IN Finish("create_contact", a, DOMAIN a, create_contact(a.name, a.email, response))

\* what a PUT may be answered with
UpdateResponses ==
    { OkResponse(JObj("ok" :> JBool(TRUE))),
      OkResponse(NotJSON),
      [ok |-> FALSE, retry |-> FALSE, body |-> NotJSON],
      [ok |-> TRUE, retry |-> TRUE, body |-> JObj(EmptyDoc)] }

\* a method of the model instance an operation returned ends with t
Method(name, args, passed, t) ==
    \E r \in {t} :
        /\ pc' = "done"
        /\ op' = [name |-> name, args |-> args, passed |-> passed]
        /\ Exchange(r)
        /\ outcome' = r.out
        /\ view' = NoView
        /\ UNCHANGED <<page, tickets, fetched>>

\* topic.update(...) on the Topic get_topic returned
TopicUpdate ==
    /\ pc = "done"
    /\ op.name = "get_topic"
    /\ subject.t = "obj"
    /\ \E title \in NewStrings, body_html \in NewStrings, sticky \in NewFlags, locked \in NewFlags :
       \E response \in UpdateResponses :
          LET a == ("title" :> title) @@ ("body_html" :> body_html)
                     @@ ("sticky" :> sticky) @@ ("locked" :> locked)
          IN Method("Topic.update", a, DOMAIN a,
                    Topic_update(subject, title, body_html, sticky, locked, response))
    /\ UNCHANGED subject

\* topic.posts[i].update(...) on the Topic get_topic returned
PostUpdate ==
    /\ pc = "done"
    /\ op.name = "get_topic"
    /\ subject.t = "obj"
    /\ \E ps \in {Topic_posts(subject)} :
          /\ ps.kind = "return"
          /\ \E i \in 1..Len(ps.val.l) : \E body_html \in NewStrings :
             \E response \in UpdateResponses :
                /\ Method("Post.update", "body_html" :> body_html, {"body_html"},
                          Post_update(ps.val.l[i], body_html, response))
                /\ subject' = ps.val.l[i]

\* reading a property of the model instance an operation returned
ReadProperty ==
    /\ pc = "done"
    /\ subject.t = "obj"
    /\ op.name \in {"get_ticket", "get_topic", "get_category", "get_article", "get_contact",
                    "create_folder", "create_article"}
    /\ \E name \in Properties(subject.cls) :
          view' = [name |-> name, out |-> getattr(subject, name)]
    /\ UNCHANGED <<pc, op, reqs, resps, jsonCalls, outcome, page, tickets, fetched, subject>>

Next ==
    \/ GetTicket
    \/ ListTicketsCall
    \/ ListTicketsPage
    \/ ListTicketsBadEntry
    \/ ListTicketsFetch
    \/ GetTopic
    \/ DeleteTopic
    \/ CreateTopic
    \/ GetContact
    \/ CreateContact
    \/ GetCategory
    \/ ListCategories
    \/ CreateCategory
    \/ CreateFolder
    \/ GetArticle
    \/ DeleteArticle
    \/ CreateArticle
    \/ TopicUpdate
    \/ PostUpdate
    \/ ReadProperty

Spec == Init /\ [][Next]_vars

----------------------------------------------------------------------------
(* Properties: the transport *)

\* the response of the most recent exchange
LastResp == resps[Len(resps)]

\* an operation has ended and its last step was answered by the server
Answered == pc = "done" /\ Len(resps) > 0 /\ Len(resps) = Len(reqs)

\* a success status with a Retry-After header
RateLimited(r) == r.ok /\ r.retry

\* a success status, no Retry-After, a JSON object with the key require_login
LoginRequired(r) ==
    /\ r.ok /\ ~r.retry
    /\ r.body.j = "object"
    /\ "require_login" \in DOMAIN r.body.o

\* a success status, no Retry-After, a body that is no JSON
Unparseable(r) == r.ok /\ ~r.retry /\ r.body = NotJSON

\* C1: whenever the last response of an operation has a success status and a
\* Retry-After header, the operation ends by raising the rate-limit HTTPError,
\* response.json() was never called on that response, and nothing is returned.
C1_RateLimitRaised ==
    (Answered /\ RateLimited(LastResp)) =>
        /\ outcome = RaiseMsg("HTTPError", RateLimitMsg)
        /\ ~jsonCalls[Len(resps)]

\* C2: whenever the last response of an operation has a success status, no
\* Retry-After header and a JSON object body with the key require_login, the
\* operation ends by raising the authentication HTTPError to its caller.
C2_LoginRaised ==
    (Answered /\ LoginRequired(LastResp)) =>
        outcome = RaiseMsg("HTTPError", LoginMsg)

\* the resource operations that read one document through _get
GetOps == {"get_ticket", "get_topic", "get_contact", "get_category", "get_article"}

\* C8: when a response with a success status, no Retry-After and a body that
\* is no JSON answered a get operation or list_tickets, the operation still
\* ends without raising: the sentinel the transport returned is tolerated.
C8_SentinelTolerated ==
    ( /\ pc = "done"
      /\ op.name \in GetOps \cup {"list_tickets"}
      /\ \E i \in 1..Len(resps) : Unparseable(resps[i]) )
    => outcome.kind = "return"

----------------------------------------------------------------------------
(* Properties: the create operations *)

CreateOps == {"create_category", "create_folder", "create_article", "create_topic",
              "create_contact"}

\* the wrapper key, the key of the response and the class of each create operation
CreateType(name) ==
    CASE name = "create_category" -> "solution_category"
      [] name = "create_folder"   -> "solution_folder"
      [] name = "create_article"  -> "solution_article"
      [] name = "create_topic"    -> "topic"
      [] name = "create_contact"  -> "user"

CreateKey(name) ==
    CASE name = "create_category" -> "category"
      [] name = "create_folder"   -> "folder"
      [] name = "create_article"  -> "article"
      [] name = "create_topic"    -> "topic"
      [] name = "create_contact"  -> "user"

CreateClass(name) ==
    CASE name = "create_category" -> "SolutionCategory"
      [] name = "create_folder"   -> "SolutionFolder"
      [] name = "create_article"  -> "Solution"
      [] name = "create_topic"    -> "Topic"
      [] name = "create_contact"  -> "Contact"

CreatePath(name) ==
    CASE name = "create_category" -> "solution/categories.json"
      [] name = "create_folder"   -> "solution/categories/3/folders.json"
      [] name = "create_article"  -> "solution/categories/3/folders/4/articles.json"
      [] name = "create_topic"    -> "discussions/topics.json"
      [] name = "create_contact"  -> "contacts.json"

\* {"<type>": {fields}} with exactly the fields the caller passed
PassedWrapper ==
    JObj(CreateType(op.name) :> JObj([k \in op.passed |-> json_dumps(op.args[k])]))

\* C4: the body of the request a create operation sends is the JSON text of
\* {"<type>": {fields}} whose fields are exactly those the caller passed.
C4_BodyIsPassedFields ==
    (pc = "done" /\ op.name \in CreateOps /\ Len(reqs) = 1) =>
        reqs[1].data = PyJsonText(PassedWrapper)

\* a success response carrying, under `key`, an object with both timestamps
Created(r, key) ==
    /\ r.ok /\ ~r.retry
    /\ r.body.j = "object"
    /\ key \in DOMAIN r.body.o
    /\ r.body.o[key].j = "object"
    /\ {"created_at", "updated_at"} \subseteq DOMAIN r.body.o[key].o

\* C5: a create operation answered by a successful response has sent exactly
\* one POST, to its resource path, and returns an instance of its model class
\* built from the response's top-level key.
C5_CreateReturnsModel ==
    ( /\ pc = "done" /\ op.name \in CreateOps
      /\ Len(resps) = 1 /\ Created(resps[1], CreateKey(op.name)) )
    => /\ Len(reqs) = 1
       /\ reqs[1].method = "POST"
       /\ reqs[1].url = PyStr(CreatePath(op.name))
       /\ reqs[1].data.t = "jsontext"
       /\ outcome.kind = "return"
       /\ outcome.val.t = "obj"
       /\ outcome.val.cls = CreateClass(op.name)

----------------------------------------------------------------------------
(* Properties: hydration *)

Digits == {"0", "1", "2", "3", "4", "5", "6", "7", "8", "9"}

\* s begins with a date and a time of the form YYYY-MM-DDTHH:MM:SS
ParseableTimestamp(s) ==
    /\ Len(s) >= 19
    /\ \A i \in {1, 2, 3, 4, 6, 7, 9, 10, 12, 13, 15, 16, 18, 19} : SubSeq(s, i, i) \in Digits
    /\ SubSeq(s, 5, 5) = "-" /\ SubSeq(s, 8, 8) = "-"
    /\ SubSeq(s, 11, 11) = "T"
    /\ SubSeq(s, 14, 14) = ":" /\ SubSeq(s, 17, 17) = ":"

\* the key under which each get operation finds its document
GetKey(name) ==
    CASE name = "get_ticket"   -> "helpdesk_ticket"
      [] name = "get_topic"    -> "topic"
      [] name = "get_contact"  -> "user"
      [] name = "get_category" -> "category"
      [] name = "get_article"  -> "article"

\* the fields of the document a get operation was answered with
GotFields == resps[1].body.o[GetKey(op.name)].o

\* C7: a get operation returns a model instance only if the fields it was
\* hydrated from hold both created_at and updated_at, each a string that is
\* parseable as a timestamp.
C7_HydratedOnlyWithTimestamps ==
    (op.name \in GetOps /\ pc = "done" /\ outcome.kind = "return") =>
        \A k \in {"created_at", "updated_at"} :
            /\ k \in DOMAIN GotFields
            /\ GotFields[k].j = "string"
            /\ ParseableTimestamp(GotFields[k].s)

\* the operations that return a container model, its class and the name of
\* the accessor under which the response embeds the children
ContainerOps == {"get_topic", "get_category", "get_article", "create_folder"}

Accessor(name) ==
    CASE name = "get_topic"     -> "posts"
      [] name = "get_category"  -> "folders"
      [] name = "get_article"   -> "tags"
      [] name = "create_folder" -> "articles"

ContainerKey(name) == IF name = "create_folder" THEN "folder" ELSE GetKey(name)

\* C10: a container model hydrated from a successful response that embeds its
\* children array under the accessor's name is returned, with the raw array
\* stored under the underscore-prefixed name and nothing under the accessor's.
C10_ChildrenStoredPrivately ==
    ( /\ pc = "done" /\ op.name \in ContainerOps
      /\ Len(resps) = 1 /\ Created(resps[1], ContainerKey(op.name))
      /\ Accessor(op.name) \in DOMAIN resps[1].body.o[ContainerKey(op.name)].o )
    => /\ outcome.kind = "return"
       /\ outcome.val.t = "obj"
       /\ Accessor(op.name) \notin DOMAIN outcome.val.attrs
       /\ ("_" \o Accessor(op.name)) \in DOMAIN outcome.val.attrs
       /\ outcome.val.attrs["_" \o Accessor(op.name)]
            = json_loads(resps[1].body.o[ContainerKey(op.name)].o[Accessor(op.name)])

----------------------------------------------------------------------------
(* Properties: the labels of a ticket *)

\* an accessor of the Ticket get_ticket returned has been read
TicketLabelRead ==
    /\ op.name = "get_ticket"
    /\ view.name \in {"status", "priority", "source"}

\* the numeric code the response carried for the accessor read
LabelCode == resps[1].body.o.helpdesk_ticket.o[view.name].n

StatusLabel(c) ==
    CASE c = 2 -> "open" [] c = 3 -> "pending" [] c = 4 -> "resolved" [] c = 5 -> "closed"
      [] OTHER -> "status_" \o ToString(c)

\* C6: for a Ticket get_ticket returned, status reads 'open' for 2, 'pending'
\* for 3, 'resolved' for 4, 'closed' for 5 and 'status_<c>' for any other code
\* c, never raising; priority reads 'low', 'medium', 'high', 'urgent' for 1..4
\* (so 3 is 'high' and 2 is 'medium'); source reads the label of its table;
\* a priority or source code outside its table raises KeyError.
C6_TicketLabels ==
    TicketLabelRead =>
        view.out =
            CASE view.name = "status" -> Return(PyStr(StatusLabel(LabelCode)))
              [] view.name = "priority" ->
                    IF LabelCode \in 1..4
                    THEN Return(PyStr(<<"low", "medium", "high", "urgent">>[LabelCode]))
                    ELSE Raise("KeyError")
              [] view.name = "source" ->
                    IF LabelCode \in 1..7
                    THEN Return(PyStr(<<"email", "portal", "phone", "forum", "twitter",
                                        "facebook", "chat">>[LabelCode]))
                    ELSE Raise("KeyError")

\* the priority of a ticket whose priority code is 3 has been read: 'high'
C6_Witness ==
    /\ TicketLabelRead
    /\ view.name = "priority"
    /\ LabelCode = 3
    /\ view.out = Return(PyStr("high"))

\* C6 as first stated: the priority label of code 3 is 'medium'.
C6_PriorityThreeIsMedium ==
    (TicketLabelRead /\ view.name = "priority" /\ LabelCode = 3) =>
        view.out = Return(PyStr("medium"))

----------------------------------------------------------------------------
(* Properties: list_tickets *)

\* a success response whose body is an array of entries with a display_id
IsPage(r) ==
    /\ r.ok /\ ~r.retry
    /\ r.body.j = "array"
    /\ \A i \in 1..Len(r.body.a) :
          /\ r.body.a[i].j = "object"
          /\ "display_id" \in DOMAIN r.body.a[i].o
          /\ r.body.a[i].o.display_id.j = "number"

\* a success response carrying a ticket with both timestamps
IsTicketDoc(r) == Created(r, "helpdesk_ticket")

\* the entries of the first n responses, concatenated in order
RECURSIVE Listed(_)
Listed(n) == IF n = 0 THEN <<>> ELSE Listed(n - 1) \o resps[n].body.a

\* list_tickets has ended, and the server answered pages 1..page-1 with
\* non-empty lists, page `page` with an empty list, and every get_ticket with
\* a ticket
PagedServer ==
    /\ op.name = "list_tickets"
    /\ pc = "done"
    /\ page \in 1..Len(resps)
    /\ \A i \in 1..(page - 1) : IsPage(resps[i]) /\ Len(resps[i].body.a) > 0
    /\ IsPage(resps[page]) /\ Len(resps[page].body.a) = 0
    /\ \A i \in (page + 1)..Len(resps) : IsTicketDoc(resps[i])

\* the url of page i for the filter the caller named
PageUrl(i) ==
    PyStr("helpdesk/tickets/filter/"
            \o (IF "filter_name" \in op.passed THEN op.args.filter_name.s ELSE "all_tickets")
            \o "?format=json&page=" \o ToString(i))

\* C3: when the server answers pages 1..N with non-empty lists and page N+1
\* with an empty list, list_tickets ends having requested exactly the pages
\* 1..N+1 in order and then one get_ticket per listed entry, on that entry's
\* display_id, in the order of the concatenation of pages 1..N; it returns the
\* list of the Tickets those calls built, one per entry, in the same order.
C3_Pagination ==
    PagedServer =>
        LET entries == Listed(page - 1)
            n == Len(entries)
        IN /\ Len(reqs) = page + n
           /\ \A i \in 1..page :
                 /\ reqs[i].method = "GET"
                 /\ reqs[i].url = PageUrl(i)
           /\ \A j \in 1..n :
                 /\ reqs[page + j].method = "GET"
                 /\ reqs[page + j].url
                      = PyStr("helpdesk/tickets/" \o ToString(entries[j].o.display_id.n) \o ".json")
           /\ outcome.kind = "return"
           /\ outcome.val.t = "list"
           /\ Len(outcome.val.l) = n
           /\ \A j \in 1..n :
                 /\ outcome.val.l[j].t = "obj"
                 /\ outcome.val.l[j].cls = "Ticket"
                 /\ outcome.val.l[j].attrs.display_id = PyInt(entries[j].o.display_id.n)
                 /\ outcome.val.l[j].attrs._status
                      = json_loads(resps[page + j].body.o.helpdesk_ticket.o.status)

\* two non-empty pages, then the empty one: three tickets listed as 2, 1, 2
C3_Witness ==
    /\ PagedServer
    /\ page = 3
    /\ Len(resps[1].body.a) = 2
    /\ outcome.kind = "return"
    /\ Len(outcome.val.l) = 3
    /\ outcome.val.l[1].attrs.display_id = PyInt(2)
    /\ outcome.val.l[2].attrs.display_id = PyInt(1)
    /\ outcome.val.l[3].attrs.display_id = PyInt(2)

----------------------------------------------------------------------------
(* Properties: Topic.update and Post.update *)

\* the fields of the topic as get_topic received them
RawTopic == resps[1].body.o.topic.o

\* the field sent for a new value over a current one
Merged(new, current) == IF Truthy(new) THEN json_dumps(new) ELSE current

\* every post of the topic can be hydrated, and there is a first one
FirstPostReadable ==
    /\ "posts" \in DOMAIN RawTopic
    /\ Len(RawTopic.posts.a) > 0
    /\ \A i \in 1..Len(RawTopic.posts.a) :
          {"created_at", "updated_at"} \subseteq DOMAIN RawTopic.posts.a[i].o

\* the body Topic.update is to send
TopicBody ==
    JObj("topic" :> JObj(
        ("title" :> Merged(op.args.title, RawTopic.title))
        @@ ("body_html" :> Merged(op.args.body_html, RawTopic.posts.a[1].o.body_html))
        @@ ("sticky" :> Merged(op.args.sticky, JBool(Truthy(json_loads(RawTopic.sticky)))))
        @@ ("locked" :> Merged(op.args.locked, JBool(Truthy(json_loads(RawTopic.locked)))))))

\* C9: Topic.update and Post.update send exactly one PUT, to the topic's
\* (post's) path, whose body holds for each field the new value when it is
\* truthy and the model's current value otherwise, so a falsy new value is
\* never sent.  (The one current value that may be unreadable is the first
\* post's body_html of a topic whose posts cannot be read: asked to fall back
\* on it, Topic.update raises and sends nothing.)
C9_FalsyFallsBack ==
    /\ op.name = "Topic.update" =>
          IF Truthy(op.args.body_html) \/ FirstPostReadable
          THEN /\ Len(reqs) = 2
               /\ reqs[2].method = "PUT"
               /\ reqs[2].url = PyStr("discussions/topics/7.json")
               /\ reqs[2].data = PyJsonText(TopicBody)
          ELSE /\ Len(reqs) = 1
               /\ outcome.kind = "raise"
    /\ op.name = "Post.update" =>
          /\ Len(reqs) = 2
          /\ reqs[2].method = "PUT"
          /\ reqs[2].url = PyStr("discussions/topics/7/posts/"
                                   \o ToString(subject.attrs.id.i) \o ".json")
          /\ reqs[2].data = PyJsonText(JObj("post" :> JObj(
                 "body_html" :> Merged(op.args.body_html, json_dumps(subject.attrs.body_html)))))

\* Topic.update(title='', sticky=False) on a topic whose sticky is True has
\* sent sticky true and the old title
C9_Witness ==
    /\ op.name = "Topic.update"
    /\ op.args.sticky = PyBool(FALSE)
    /\ op.args.title = PyStr("")
    /\ RawTopic.sticky = JBool(TRUE)
    /\ Len(reqs) = 2
    /\ reqs[2].data.doc.o.topic.o.sticky = JBool(TRUE)
    /\ reqs[2].data.doc.o.topic.o.title = JStr("old title")

=============================================================================
